---- MODULE Spec2Model ----
(***************************************************************************)
(* A model of code.py, the AIO+ weather repeater: the start-up sequence,   *)
(* the steady loop around aio.loop, the message callback, the decode of    *)
(* an observation, the throttled publish sequence and the soft reset.      *)
(*                                                                         *)
(* The program is one sequential thread; pc is its position.  The          *)
(* transport (wifi, IO_MQTT), the clock and the delivered payloads are     *)
(* the environment: their outcomes are chosen with \E.                     *)
(***************************************************************************)
EXTENDS Integers, Sequences, FiniteSets, TLC

VARIABLES
    pc,                 \* position of the single thread in code.py
    pixel,              \* pixel[0]: "yellow", "green", "red" or "black"
    blinks,             \* LED pulses made by the last call of busy()
    weather_data,       \* global weather_data
    weather_data_old,   \* global weather_data_old
    wk,                 \* the weatherkit_* / icon / long_desc variables
    feedNo,             \* which of the eight publish_to_aio calls is next
    delivered,          \* messages delivered by the running aio.loop call
    last_feed,          \* feed_id of the last of them, "" if there is none
    exc,                \* the exception that ended the program, or "none"
    log                 \* calls made since the top of the loop iteration
                        \* (since the process start before the first one)

vars == <<pc, pixel, blinks, weather_data, weather_data_old, wk, feedNo,
          delivered, last_feed, exc, log>>

-----------------------------------------------------------------------------
(* Bounds of the environment.                                              *)

\* messages one aio.loop call delivers at most
MaxMessages == 2

-----------------------------------------------------------------------------
(* Program constants: durations in tenths of a second, busy() in seconds.  *)

THROTTLE == 25           \* time.sleep(2.5)
RECONNECT_WAIT == 100    \* time.sleep(10)
RESET_WAIT == 600        \* time.sleep(60)
BUSY_RUNNING == 120      \* busy(120)
BUSY_WAITING == 10       \* busy(10)

-----------------------------------------------------------------------------
(* Python values.  A JSON null inside an object is Null, any other value v *)
(* is <<v>>; the object None is PyNone; a dict carries its key set.        *)

Null == <<>>
PyNone == [kind |-> "None"]

FieldNames == {"conditionCode", "temperature", "humidity", "windSpeed",
               "windDirection", "windGust", "metadata", "daylight"}

Dict(keys, code, temp, hum, ws, wd, wg, rt, day) ==
    [kind |-> "dict", keys |-> keys,
     conditionCode |-> code, temperature |-> temp, humidity |-> hum,
     windSpeed |-> ws, windDirection |-> wd, windGust |-> wg,
     readTime |-> rt, daylight |-> day]

EmptyDict == Dict({}, Null, Null, Null, Null, Null, Null, Null, Null)

\* Documents the broker may deliver on a topic.
ClearDay  == Dict(FieldNames, <<"Clear">>, <<20>>, <<50>>, <<5>>, <<90>>, <<8>>,
                  <<"2024-01-01T12:00:00Z">>, <<TRUE>>)
RainNight == Dict(FieldNames, <<"Rain">>, <<-5>>, <<90>>, <<3>>, Null, <<4>>,
                  <<"2024-01-01T22:00:00Z">>, <<FALSE>>)
OddCode   == [ClearDay EXCEPT !.conditionCode = <<"Martian">>,
                              !.daylight = <<FALSE>>]
NullCode  == [ClearDay EXCEPT !.conditionCode = Null]
NullGust  == [ClearDay EXCEPT !.windGust = Null]
BadTime   == [ClearDay EXCEPT !.readTime = <<"yesterday">>]
NoTemp    == [ClearDay EXCEPT !.keys = FieldNames \ {"temperature"},
                              !.temperature = Null]

\* A payload is the JSON text of an object, the text null, or no JSON at all.
Payloads == {[json |-> "object", doc |-> d] :
                d \in {ClearDay, RainNight, OddCode, NullCode, NullGust,
                       BadTime, NoTemp, EmptyDict}}
            \cup {[json |-> "null", doc |-> EmptyDict],
                  [json |-> "garbage", doc |-> EmptyDict]}

FeedIds == {"weather", "time"}

\* json.loads(payload): raises ValueError on text that is no JSON.
JsonRaises(payload) == payload.json = "garbage"
json_loads(payload) == IF payload.json = "null" THEN PyNone ELSE payload.doc

\* bool(x) of a value of weather_data: None and the empty dict are false.
Truthy(x) == x.kind = "dict" /\ x.keys # {}

-----------------------------------------------------------------------------
(* Helpers of the decode.                                                  *)

COMPASS == <<"N", "NE", "E", "SE", "S", "SW", "W", "NW">>

\* int(((heading + 22.5) % 360) / 45), on whole degrees
wind_direction(heading) ==
    IF heading = Null THEN "--"
    ELSE COMPASS[(((2 * heading[1] + 45) % 720) \div 90) + 1]

\* c * 9 / 5 + 32, in tenths of a degree
celsius_to_fahrenheit(c) == 18 * c + 320

\* x * 0.6214, in ten-thousandths
Mph(x) == x * 6214

\* humidity * 100 (the fraction is held in hundredths)
Percent(h) == h * 100

\* condition code -> <<long description, icon base>>
kit_to_map_icon ==
    [c \in {"Clear", "Rain"} |->
        IF c = "Clear" THEN <<"clear sky", "01">> ELSE <<"rain", "10">>]

\* adafruit_datetime.datetime.fromisoformat(timestamp[:-1]) raises ValueError
\* unless the text is an ISO 8601 date and time.
IsoTimes == {"2024-01-01T12:00:00Z", "2024-01-01T22:00:00Z"}

\* bool(x) of a JSON boolean or null
TruthyField(x) == x # Null /\ x[1]

\* str(x) of a JSON boolean or null
Str(x) == IF x = Null THEN "None" ELSE IF x[1] THEN "True" ELSE "False"

\* int(round(t / 60, 0)) for a clock reading of t whole seconds: round()
\* rounds a tie to the even neighbour.
WatchdogMinutes(t) ==
    LET q == t \div 60
        r == t % 60
    IN  IF r < 30 THEN q
        ELSE IF r > 30 THEN q + 1
        ELSE IF q % 2 = 0 THEN q ELSE q + 1

\* readings of time.monotonic(), in seconds
Monotonic == {12, 90, 150}

\* The first exception lines 173-190 raise on the dict d, "none" if none.
DecodeError(d) ==
    IF "conditionCode" \notin d.keys THEN "KeyError"
    ELSE IF "temperature" \notin d.keys THEN "KeyError"
    ELSE IF d.temperature = Null THEN "TypeError"
    ELSE IF "humidity" \notin d.keys THEN "KeyError"
    ELSE IF d.humidity = Null THEN "TypeError"
    ELSE IF "windSpeed" \notin d.keys THEN "KeyError"
    ELSE IF d.windSpeed = Null THEN "TypeError"
    ELSE IF "windDirection" \notin d.keys THEN "KeyError"
    ELSE IF "windGust" \notin d.keys THEN "KeyError"
    ELSE IF d.windGust = Null THEN "TypeError"
    ELSE IF "metadata" \notin d.keys THEN "KeyError"
    ELSE IF "daylight" \notin d.keys THEN "KeyError"
    ELSE IF d.readTime = Null THEN "TypeError"
    ELSE IF d.readTime[1] \notin IsoTimes THEN "ValueError"
    ELSE "none"

\* The try block of lines 192-203.
IconOfByDaylight(code, day) ==
    (IF code # Null /\ code[1] \in DOMAIN kit_to_map_icon
     THEN kit_to_map_icon[code[1]][2] ELSE "99")
    \o (IF TruthyField(day) THEN "d" ELSE "n")
IconOf(code, day) ==
    IF code # Null /\ code[1] \in DOMAIN kit_to_map_icon
    THEN kit_to_map_icon[code[1]][2] \o (IF TruthyField(day) THEN "d" ELSE "n")
    ELSE "99d"

LongDescOf(code) ==
    IF code # Null /\ code[1] \in DOMAIN kit_to_map_icon
    THEN kit_to_map_icon[code[1]][1]
    ELSE "unknown description: " \o (IF code = Null THEN "None" ELSE code[1])

\* The variables lines 173-203 assign, for a dict on which they do not raise.
Decoded(d) ==
    [set |-> TRUE,
     desc |-> d.conditionCode,
     temp |-> celsius_to_fahrenheit(d.temperature[1]),
     humid |-> Percent(d.humidity[1]),
     wind_speed |-> Mph(d.windSpeed[1]),
     wind_dir |-> wind_direction(d.windDirection),
     wind_gusts |-> Mph(d.windGust[1]),
     timestamp |-> d.readTime[1],
     daylight |-> d.daylight,
     icon |-> IconOf(d.conditionCode, d.daylight),
     long_desc |-> LongDescOf(d.conditionCode)]

\* Before the first decode none of these variables is bound.
Undecoded ==
    [set |-> FALSE, desc |-> Null, temp |-> 0, humid |-> 0, wind_speed |-> 0,
     wind_dir |-> "", wind_gusts |-> 0, timestamp |-> "", daylight |-> Null,
     icon |-> "", long_desc |-> ""]

-----------------------------------------------------------------------------
(* The publish sequence of lines 205-212.                                  *)

PublishOrderSwapped ==
    <<"system-watchdog", "weather-description", "weather-temperature",
      "weather-humidity", "weather-winddirection", "weather-windgusts",
      "weather-windspeed", "weather-daylight">>
PublishOrder ==
    <<"system-watchdog", "weather-description", "weather-humidity",
      "weather-temperature", "weather-winddirection", "weather-windgusts",
      "weather-windspeed", "weather-daylight">>

\* The argument of the n-th publish_to_aio call, t being the reading of
\* time.monotonic() at that call; Null is None.
ValueOf(n, w, t) ==
    CASE n = 1 -> <<WatchdogMinutes(t)>>
      [] n = 2 -> w.desc
      [] n = 3 -> <<w.humid>>
      [] n = 4 -> <<w.temp>>
      [] n = 5 -> <<w.wind_dir>>
      [] n = 6 -> <<w.wind_gusts>>
      [] n = 7 -> <<w.wind_speed>>
      [] n = 8 -> <<Str(w.daylight)>>

-----------------------------------------------------------------------------
(* The log of calls.                                                       *)

Ev(op, feed, val, dur, res) ==
    [op |-> op, feed |-> feed, val |-> val, dur |-> dur, res |-> res]

Sleep(d) == Ev("sleep", "", Null, d, "ok")

Outcome(ok) == IF ok THEN "ok" ELSE "fail"

-----------------------------------------------------------------------------
Init ==
    /\ pc = "wifi"
    /\ pixel = "yellow"
    /\ blinks = 0
    /\ weather_data = PyNone
    /\ weather_data_old = PyNone
    /\ wk = Undecoded
    /\ feedNo = 1
    /\ delivered = 0
    /\ last_feed = ""
    /\ exc = "none"
    /\ log = <<>>

-----------------------------------------------------------------------------
(* Start-up, lines 102-147.                                                *)

\* lines 102-113: wifi.radio.connect and its except block, up to the sleep
WifiConnect ==
    /\ pc = "wifi"
    /\ \E ok \in BOOLEAN :
        /\ pixel' = (IF ok THEN "green" ELSE "red")
        /\ pc' = (IF ok THEN "aio_connect" ELSE "fatal")
        /\ log' = Append(log, Ev("wifi", "", Null, 0, Outcome(ok)))
    /\ UNCHANGED <<blinks, weather_data, weather_data_old, wk, feedNo,
                   delivered, last_feed, exc>>

\* lines 117-136: the session objects and aio.connect(), which no try wraps
AioConnect ==
    /\ pc = "aio_connect"
    /\ \E ok \in BOOLEAN :
        /\ pc' = (IF ok THEN "subscribe" ELSE "halted")
        /\ exc' = (IF ok THEN exc ELSE "AdafruitIO_MQTTError")
        /\ log' = Append(log, Ev("connect", "", Null, 0, Outcome(ok)))
    /\ UNCHANGED <<pixel, blinks, weather_data, weather_data_old, wk, feedNo,
                   delivered, last_feed>>

\* lines 138-147: the callbacks, subscribe_to_weather, the two globals
SubscribeToWeather ==
    /\ pc = "subscribe"
    /\ \E ok \in BOOLEAN :
        /\ pc' = (IF ok THEN "loop" ELSE "halted")
        /\ exc' = (IF ok THEN exc ELSE "MMQTTException")
        /\ log' = Append(log, Ev("subscribe", "", Null, 0, Outcome(ok)))
        /\ IF ok THEN weather_data' = PyNone /\ weather_data_old' = PyNone
                 ELSE UNCHANGED <<weather_data, weather_data_old>>
    /\ UNCHANGED <<pixel, blinks, wk, feedNo, delivered, last_feed>>

-----------------------------------------------------------------------------
(* The steady loop, lines 149-218.                                         *)

\* lines 152-154: the indicator, the throttle, and aio.loop(10) is entered
LoopTop ==
    /\ pc = "loop"
    /\ pixel' = "yellow"
    /\ log' = <<Sleep(THROTTLE)>>
    /\ delivered' = 0
    /\ last_feed' = ""
    /\ pc' = "service"
    /\ UNCHANGED <<blinks, weather_data, weather_data_old, wk, feedNo, exc>>

\* lines 156-161: the except block of aio.loop up to the sleep before
\* aio.connect(); l is the log at the failure
LoopError(l) ==
    /\ pixel' = "red"
    /\ log' = l \o <<Ev("loop", "", Null, 0, "fail"), Sleep(RECONNECT_WAIT)>>
    /\ pc' = "loop_reconnect"

\* lines 47-52: the callback, run inside aio.loop; an exception of json.loads
\* leaves it, and aio.loop, before the assignment
message_any_feed(feed_id, payload) ==
    /\ pc = "service"
    /\ delivered < MaxMessages
    /\ delivered' = delivered + 1
    /\ last_feed' = feed_id
    /\ IF JsonRaises(payload)
       THEN /\ LoopError(log)
            /\ UNCHANGED weather_data
       ELSE /\ weather_data' = json_loads(payload)
            /\ UNCHANGED <<pc, pixel, log>>
    /\ UNCHANGED <<blinks, weather_data_old, wk, feedNo, exc>>
message(feed_id, payload) ==
    /\ pc = "service"
    /\ delivered < MaxMessages
    /\ delivered' = delivered + 1
    /\ last_feed' = feed_id
    /\ IF feed_id = "weather"
       THEN IF JsonRaises(payload)
            THEN /\ LoopError(log)
                 /\ UNCHANGED weather_data
            ELSE /\ weather_data' = json_loads(payload)
                 /\ UNCHANGED <<pc, pixel, log>>
       ELSE UNCHANGED <<pc, pixel, log, weather_data>>
    /\ UNCHANGED <<blinks, weather_data_old, wk, feedNo, exc>>

Deliver == \E feed_id \in FeedIds, payload \in Payloads : message(feed_id, payload)

\* lines 154-155: aio.loop returns
LoopReturns ==
    /\ pc = "service"
    /\ pixel' = "green"
    /\ log' = Append(log, Ev("loop", "", Null, 0, "ok"))
    /\ pc' = "check"
    /\ last_feed' = ""
    /\ UNCHANGED <<blinks, weather_data, weather_data_old, wk, feedNo,
                   delivered, exc>>

\* lines 154-161: aio.loop raises
LoopRaises ==
    /\ pc = "service"
    /\ LoopError(log)
    /\ last_feed' = ""
    /\ UNCHANGED <<blinks, weather_data, weather_data_old, wk, feedNo,
                   delivered, exc>>

\* where line 163 leaves the try statement: the if of line 171
AfterLoopReconnectLost == "fatal"
AfterLoopReconnectResubscribes == "subscribe"
AfterLoopReconnect == "check"

\* where lines 164-167 go on: time.sleep(60) and supervisor.reload()
AfterLoopReconnectErrorFallsThrough == "check"
AfterLoopReconnectError == "fatal"

\* lines 162-167: aio.connect() and its except block, up to the sleep
LoopReconnect ==
    /\ pc = "loop_reconnect"
    /\ \E ok \in BOOLEAN :
        /\ pixel' = (IF ok THEN "green" ELSE "red")
        /\ pc' = (IF ok THEN AfterLoopReconnect ELSE AfterLoopReconnectError)
        /\ log' = Append(log, Ev("connect", "", Null, 0, Outcome(ok)))
    /\ UNCHANGED <<blinks, weather_data, weather_data_old, wk, feedNo,
                   delivered, last_feed, exc>>

\* line 172
ChangedAlways(current, previous) == TRUE
ChangedInverted(current, previous) == current = previous
Changed(current, previous) == current # previous

\* lines 171-172, 216: which branch the iteration takes
CacheCheck ==
    /\ pc = "check"
    /\ pc' = IF Truthy(weather_data)
             THEN IF Changed(weather_data, weather_data_old)
                  THEN "decode" ELSE "busy120"
             ELSE "busy10"
    /\ UNCHANGED <<pixel, blinks, weather_data, weather_data_old, wk, feedNo,
                   delivered, last_feed, exc, log>>

\* lines 173-203: nothing catches what these lines raise
Decode ==
    /\ pc = "decode"
    /\ IF DecodeError(weather_data) = "none"
       THEN /\ wk' = Decoded(weather_data)
            /\ feedNo' = 1
            /\ pc' = "publish"
            /\ UNCHANGED exc
       ELSE /\ exc' = DecodeError(weather_data)
            /\ pc' = "halted"
            /\ UNCHANGED <<wk, feedNo>>
    /\ UNCHANGED <<pixel, blinks, weather_data, weather_data_old, delivered,
                   last_feed, log>>

\* the statement after the n-th publish_to_aio call
AfterPublishCommitsEarly(n) == pc' = "commit" /\ feedNo' = n
AfterPublish(n) ==
    /\ pc' = (IF n = Len(PublishOrder) THEN "commit" ELSE "publish")
    /\ feedNo' = (IF n = Len(PublishOrder) THEN n ELSE n + 1)

\* line 80: publish_to_aio returns after the reconnect, to the statement
\* after the call
AfterPubReconnectRetries(n) == pc' = "publish" /\ feedNo' = n
AfterPubReconnect(n) == AfterPublish(n)

\* lines 72-79: what answers a failed aio.publish
AfterPublishErrorGivesUp == "fatal"
AfterPublishError == "pub_reconnect"

\* line 67
NoThrottle == <<>>
PublishThrottle == <<Sleep(THROTTLE)>>

\* lines 61-77, 88-89: publish_to_aio up to aio.reconnect()
publish_to_aio_unchecked(value, feed) ==
    \E ok \in BOOLEAN :
        /\ log' = log \o PublishThrottle
                      \o <<Ev("publish", feed, value, 0, Outcome(ok))>>
        /\ pixel' = (IF ok THEN "green" ELSE "red")
        /\ IF ok THEN AfterPublish(feedNo)
                 ELSE pc' = AfterPublishError /\ UNCHANGED feedNo
publish_to_aio(value, feed) ==
    IF value # Null
    THEN \E ok \in BOOLEAN :
            /\ log' = log \o PublishThrottle
                          \o <<Ev("publish", feed, value, 0, Outcome(ok))>>
            /\ pixel' = (IF ok THEN "green" ELSE "red")
            /\ IF ok THEN AfterPublish(feedNo)
                     ELSE pc' = AfterPublishError /\ UNCHANGED feedNo
    ELSE /\ log' = Append(log, Ev("skip", feed, Null, 0, "none"))
         /\ AfterPublish(feedNo)
         /\ UNCHANGED pixel

\* lines 205-212: the next call of the sequence
Publish ==
    /\ pc = "publish"
    /\ \E t \in Monotonic :
        publish_to_aio(ValueOf(feedNo, wk, t), PublishOrder[feedNo])
    /\ UNCHANGED <<blinks, weather_data, weather_data_old, wk, delivered,
                   last_feed, exc>>

\* lines 78-84: aio.reconnect() and its except block, up to the sleep
PubReconnect ==
    /\ pc = "pub_reconnect"
    /\ \E ok \in BOOLEAN :
        /\ pixel' = (IF ok THEN "green" ELSE "red")
        /\ log' = Append(log, Ev("reconnect", "", Null, 0, Outcome(ok)))
        /\ IF ok THEN AfterPubReconnect(feedNo)
                 ELSE pc' = "fatal" /\ UNCHANGED feedNo
    /\ UNCHANGED <<blinks, weather_data, weather_data_old, wk, delivered,
                   last_feed, exc>>

\* line 214
CommitForgets ==
    /\ pc = "commit"
    /\ log' = Append(log, Ev("commit", "", Null, 0, "ok"))
    /\ pc' = "busy120"
    /\ UNCHANGED <<pixel, blinks, weather_data, weather_data_old, wk, feedNo,
                   delivered, last_feed, exc>>
Commit ==
    /\ pc = "commit"
    /\ weather_data_old' = weather_data
    /\ log' = Append(log, Ev("commit", "", Null, 0, "ok"))
    /\ pc' = "busy120"
    /\ UNCHANGED <<pixel, blinks, weather_data, wk, feedNo, delivered,
                   last_feed, exc>>

\* lines 92-100: busy(delay), delay a whole number of seconds
busy(delay) ==
    /\ pixel' = "black"
    /\ blinks' = delay
    /\ log' = Append(log, Ev("busy", "", Null, delay * 10, "ok"))

\* line 215
BusyRunning ==
    /\ pc = "busy120"
    /\ busy(BUSY_RUNNING)
    /\ pc' = "loop"
    /\ UNCHANGED <<weather_data, weather_data_old, wk, feedNo, delivered,
                   last_feed, exc>>

\* lines 217-218
BusyWaiting ==
    /\ pc = "busy10"
    /\ busy(BUSY_WAITING)
    /\ pc' = "loop"
    /\ UNCHANGED <<weather_data, weather_data_old, wk, feedNo, delivered,
                   last_feed, exc>>

-----------------------------------------------------------------------------
(* The soft reset: lines 84-86, 113-115 and 167-169 are the same two       *)
(* statements.                                                             *)

\* time.sleep(60)
ResetWaitBusy ==
    /\ pc = "fatal"
    /\ busy(60)
    /\ pc' = "reload"
    /\ UNCHANGED <<weather_data, weather_data_old, wk, feedNo, delivered,
                   last_feed, exc>>
ResetWait ==
    /\ pc = "fatal"
    /\ log' = Append(log, Sleep(RESET_WAIT))
    /\ pc' = "reload"
    /\ UNCHANGED <<pixel, blinks, weather_data, weather_data_old, wk, feedNo,
                   delivered, last_feed, exc>>

\* supervisor.reload(): code.py runs again from its first line
ReloadReturns ==
    /\ pc = "reload"
    /\ pc' = (IF wk.set THEN "commit" ELSE "check")
    /\ UNCHANGED <<pixel, blinks, weather_data, weather_data_old, wk, feedNo,
                   delivered, last_feed, exc, log>>
Reload ==
    /\ pc = "reload"
    /\ pc' = "wifi"
    /\ pixel' = "yellow"
    /\ blinks' = 0
    /\ weather_data' = PyNone
    /\ weather_data_old' = PyNone
    /\ wk' = Undecoded
    /\ feedNo' = 1
    /\ delivered' = 0
    /\ last_feed' = ""
    /\ exc' = "none"
    /\ log' = <<>>

-----------------------------------------------------------------------------
Next ==
    \/ WifiConnect
    \/ AioConnect
    \/ SubscribeToWeather
    \/ LoopTop
    \/ Deliver
    \/ LoopReturns
    \/ LoopRaises
    \/ LoopReconnect
    \/ CacheCheck
    \/ Decode
    \/ Publish
    \/ PubReconnect
    \/ Commit
    \/ BusyRunning
    \/ BusyWaiting
    \/ ResetWait
    \/ Reload

Spec == Init /\ [][Next]_vars

\* The thread always runs its next statement, and every blocking call ends
\* (it returns or raises); the environment owes nothing else.
LiveSpec == Spec /\ WF_vars(Next)

-----------------------------------------------------------------------------
(* Reading the log.                                                        *)

Last(s) == s[Len(s)]

IsCall(e) == e.op \in {"publish", "skip"}

\* the publish_to_aio calls of the log, in order
Calls(l) == SelectSeq(l, IsCall)

\* no aio.publish was made in the log
NoPublish(l) == \A i \in 1..Len(l) : l[i].op # "publish"

\* the log holds the event
Logged(l, op, res) == \E i \in 1..Len(l) : l[i].op = op /\ l[i].res = res

\* how often the log holds the 60 second wait of the soft reset
ResetWaits(l) == Cardinality({i \in 1..Len(l) : l[i].op = "sleep" /\ l[i].dur = 600})

-----------------------------------------------------------------------------
(* C1: In a steady-loop iteration in which the current observation equals  *)
(* the committed previous one (no new message, or the same observation     *)
(* delivered again), none of the eight publish calls is made and           *)
(* busy(120) still runs before the next iteration.                         *)

Unchanged == weather_data_old # PyNone /\ weather_data = weather_data_old

C1_UnchangedSkipsPublish ==
    /\ [](pc = "check" => NoPublish(log) /\ Calls(log) = <<>>)
    /\ [][/\ (pc = "check" /\ Unchanged) => (pc' = "busy120" /\ log' = log)
          /\ (pc = "busy120") =>
                /\ pc' = "loop"
                /\ blinks' = 120
                /\ log' = Append(log, Ev("busy", "", Null, 1200, "ok"))
                /\ UNCHANGED <<weather_data, weather_data_old>>]_vars

\* an iteration that got the committed observation again has ended
C1_Witness ==
    /\ pc = "loop"
    /\ Unchanged
    /\ delivered > 0
    /\ log # <<>>
    /\ Last(log) = Ev("busy", "", Null, 1200, "ok")
    /\ Calls(log) = <<>>
    /\ ~Logged(log, "commit", "ok")

-----------------------------------------------------------------------------
(* C2: When aio.loop fails and the following aio.connect succeeds, the     *)
(* soft reset is not started, the iteration goes on to the cache check,    *)
(* and the failure handling leaves weather_data and weather_data_old as    *)
(* they were.                                                              *)

C2_ReconnectResumes ==
    [][/\ (pc = "service" /\ pc' = "loop_reconnect") =>
                UNCHANGED <<weather_data, weather_data_old>>
       /\ (pc = "loop_reconnect") =>
                /\ UNCHANGED <<weather_data, weather_data_old>>
                /\ Last(log').op = "connect"
                /\ Last(log').res = "ok" =>
                      /\ pc' = "check"
                      /\ pixel' = "green"
                      /\ ResetWaits(log') = 0]_vars

\* the cache check is reached after a failed aio.loop with both
\* observations still cached
C2_Witness ==
    /\ pc = "check"
    /\ Logged(log, "loop", "fail")
    /\ Last(log) = Ev("connect", "", Null, 0, "ok")
    /\ Truthy(weather_data)
    /\ Truthy(weather_data_old)
    /\ weather_data # weather_data_old

-----------------------------------------------------------------------------
(* C3: When aio.loop fails and the following aio.connect fails too, the    *)
(* soft reset runs exactly once and no publish is made in that iteration.  *)

LoopReconnectFailed(l) ==
    Logged(l, "loop", "fail") /\ Logged(l, "connect", "fail")

C3_LoopReconnectFailureResets ==
    /\ [](LoopReconnectFailed(log) =>
            /\ pc \in {"fatal", "reload"}
            /\ NoPublish(log)
            /\ Calls(log) = <<>>
            /\ ResetWaits(log) = (IF pc = "reload" THEN 1 ELSE 0))
    /\ [][/\ (pc = "loop_reconnect" /\ Last(log').res = "fail") =>
                pc' = "fatal" /\ pixel' = "red"
          /\ (pc = "fatal") => pc' = "reload"
          /\ (pc = "reload") => pc' = "wifi" /\ log' = <<>>]_vars

\* the 60 second wait has run after both failures
C3_Witness ==
    /\ pc = "reload"
    /\ LoopReconnectFailed(log)
    /\ Last(log) = Sleep(600)

-----------------------------------------------------------------------------
(* C4: When a publish fails a reconnect is attempted; if it succeeds the   *)
(* same value is not published again and the sequence goes on with the     *)
(* next value; if it fails the soft reset starts and none of the remaining *)
(* values is published.                                                    *)

C4_PublishFailure ==
    /\ [](LET c == Calls(log)
          IN  \A i, j \in 1..Len(c) : c[i].feed = c[j].feed => i = j)
    /\ [][/\ (pc = "publish" /\ Last(log').op = "publish"
                             /\ Last(log').res = "fail") =>
                pc' = "pub_reconnect" /\ feedNo' = feedNo
          /\ (pc = "pub_reconnect") =>
                /\ Last(log').op = "reconnect"
                /\ Len(log') = Len(log) + 1
                /\ Last(log').res = "ok" =>
                      IF feedNo < 8
                      THEN pc' = "publish" /\ feedNo' = feedNo + 1
                      ELSE pc' = "commit"
                /\ Last(log').res = "fail" => pc' = "fatal"
          /\ (pc \in {"fatal", "reload"}) =>
                /\ pc' \in {"reload", "wifi"}
                /\ Calls(log') = Calls(log) \/ log' = <<>>]_vars

\* the value after a failed one is up next, after a successful reconnect
C4_Witness ==
    /\ pc = "publish"
    /\ feedNo = 4
    /\ Len(log) > 2
    /\ Last(log) = Ev("reconnect", "", Null, 0, "ok")
    /\ log[Len(log) - 1].op = "publish"
    /\ log[Len(log) - 1].feed = "weather-humidity"
    /\ log[Len(log) - 1].res = "fail"

-----------------------------------------------------------------------------
(* C5: Every transport error (link connect, broker connect, service,       *)
(* publish) is first answered by a reconnect attempt, the soft reset       *)
(* starts only after a reconnect attempt has failed, and the program ends  *)
(* in no other way.                                                        *)

FailedReconnect(e) == e.op \in {"connect", "reconnect"} /\ e.res = "fail"

\* the claim as stated
C5_ResetOnlyAfterFailedReconnect ==
    /\ pc # "halted"
    /\ pc = "fatal" => FailedReconnect(Last(log))

\* As amended: a failed aio.loop and a failed aio.publish are each answered
\* by a reconnect attempt before anything else, and the soft reset starts
\* only after that attempt has failed or, with no reconnect attempt, after
\* a failed wifi connect.
C5_TwoTierInLoopOnly ==
    /\ \A i \in 1..Len(log) :
        /\ (log[i].op = "loop" /\ log[i].res = "fail") =>
              /\ i + 1 <= Len(log) /\ log[i + 1] = Sleep(100)
              /\ IF i + 2 <= Len(log) THEN log[i + 2].op = "connect"
                                      ELSE pc = "loop_reconnect"
        /\ (log[i].op = "publish" /\ log[i].res = "fail") =>
              IF i + 1 <= Len(log) THEN log[i + 1].op = "reconnect"
                                   ELSE pc = "pub_reconnect"
    /\ pc = "fatal" =>
        \/ Last(log) = Ev("wifi", "", Null, 0, "fail")
        \/ /\ Len(log) > 2
           /\ Last(log) = Ev("connect", "", Null, 0, "fail")
           /\ log[Len(log) - 2] = Ev("loop", "", Null, 0, "fail")
        \/ /\ Len(log) > 1
           /\ Last(log) = Ev("reconnect", "", Null, 0, "fail")
           /\ log[Len(log) - 1].op = "publish"
           /\ log[Len(log) - 1].res = "fail"

\* the soft reset starts after a failed publish and a failed reconnect
C5_Witness ==
    /\ pc = "fatal"
    /\ Last(log) = Ev("reconnect", "", Null, 0, "fail")

-----------------------------------------------------------------------------
(* C6: A failure of aio.connect() during start-up, the link being up, is   *)
(* answered like a failure of the link: the indicator turns red, the 60    *)
(* second wait runs and the process restarts.                              *)

StartupConnectFailed ==
    /\ Len(log) = 2
    /\ log[1] = Ev("wifi", "", Null, 0, "ok")
    /\ log[2] = Ev("connect", "", Null, 0, "fail")

C6_BrokerFailureResets ==
    StartupConnectFailed => (pc = "fatal" /\ pixel = "red")

-----------------------------------------------------------------------------
(* C7: The program never stops on its own: whatever the transport does and *)
(* whatever payload is delivered (missing fields, null fields, an unknown  *)
(* condition code), it is in the start-up, in the loop or in the soft      *)
(* reset.                                                                  *)

Running ==
    pc \in {"wifi", "aio_connect", "subscribe", "loop", "service",
            "loop_reconnect", "check", "decode", "publish", "pub_reconnect",
            "commit", "busy120", "busy10"}

\* in every state; the unhandled failure of aio.connect() at start-up (C6)
\* is the nearest state that violates it
C7_NeverStops ==
    /\ Running \/ pc \in {"fatal", "reload"}
    /\ exc = "none"

\* C7 in the states the start-up cannot account for: whatever payloads
\* aio.loop has delivered, the program is in the loop or in the soft reset.
C7_NoPayloadStops ==
    delivered > 0 => (Running \/ pc \in {"fatal", "reload"}) /\ exc = "none"

-----------------------------------------------------------------------------
(* C8: While the steady loop runs without transport failures the           *)
(* system-watchdog channel is published again and again, whether or not    *)
(* the observation changes and whether or not a first one has arrived.     *)

SteadyNoFailure ==
    /\ pc \in {"loop", "service", "check", "decode", "publish", "commit",
               "busy120", "busy10"}
    /\ \A i \in 1..Len(log) : log[i].res # "fail"

WatchdogCalled ==
    /\ log # <<>>
    /\ Last(log).op = "publish"
    /\ Last(log).feed = "system-watchdog"

\* the claim as stated
C8_WatchdogPeriodic ==
    <>[]SteadyNoFailure => []<>(WatchdogCalled /\ Last(log).res = "ok")

ChangedAtCheck ==
    /\ pc = "check"
    /\ Truthy(weather_data)
    /\ weather_data # weather_data_old
    /\ DecodeError(weather_data) = "none"

\* As amended: the system-watchdog channel is published in the iterations
\* that find a set observation different from the previous one (and decode
\* it), as the first call of the iteration; an iteration that finds the
\* observation unset or unchanged publishes nothing.
C8_WatchdogOnChange ==
    /\ ChangedAtCheck ~> WatchdogCalled
    /\ [](WatchdogCalled => Len(Calls(log)) = 1)
    /\ [][(pc = "check" /\ ~(Truthy(weather_data)
                             /\ weather_data # weather_data_old)) =>
            (pc' \in {"busy10", "busy120"} /\ NoPublish(log'))]_vars
    /\ [][(pc = "busy10" \/ pc = "busy120") =>
            (pc' = "loop" /\ Calls(log') = Calls(log))]_vars

\* the watchdog value of an iteration with a new observation has gone out
C8_Witness ==
    /\ WatchdogCalled
    /\ Last(log).res = "ok"
    /\ Truthy(weather_data_old)
    /\ weather_data # weather_data_old

-----------------------------------------------------------------------------
(* C9: Within one iteration the publish_to_aio calls come in the order     *)
(* system-watchdog, description, humidity, temperature, winddirection,     *)
(* windgusts, windspeed, daylight, each channel at most once, and a        *)
(* publish with its reconnect has ended before the next one starts.        *)

C9_Order ==
    LET c == Calls(log)
        order == <<"system-watchdog", "weather-description",
                   "weather-humidity", "weather-temperature",
                   "weather-winddirection", "weather-windgusts",
                   "weather-windspeed", "weather-daylight">>
    IN  /\ Len(c) <= 8
        /\ \A i \in 1..Len(c) : c[i].feed = order[i]
        /\ pc = "publish" => Len(c) = feedNo - 1
        /\ pc = "pub_reconnect" => Len(c) = feedNo /\ Last(log) = Last(c)
        /\ pc = "commit" => Len(c) = 8
        /\ \A i \in 1..Len(log) :
              (log[i].op = "publish" /\ log[i].res = "fail"
                                     /\ i < Len(log)) =>
                  log[i + 1].op = "reconnect"

\* all eight calls of an iteration are made, one of them after a reconnect
C9_Witness ==
    /\ pc = "commit"
    /\ Len(Calls(log)) = 8
    /\ Logged(log, "reconnect", "ok")
    /\ Last(log).feed = "weather-daylight"

-----------------------------------------------------------------------------
(* C10: Every aio.publish call and every aio.loop call comes right after   *)
(* a 2.5 second wait of its own, also after a failed publish and a         *)
(* successful reconnect.                                                   *)

C10_Throttle ==
    /\ pc = "service" => log = <<Sleep(25)>>
    /\ \A i \in 1..Len(log) :
          log[i].op \in {"publish", "loop"} =>
              i > 1 /\ log[i - 1] = Ev("sleep", "", Null, 25, "ok")
    /\ Len(SelectSeq(log, LAMBDA e : e = Sleep(25))) =
          Len(SelectSeq(log, LAMBDA e : e.op \in {"publish", "loop"}))
          + (IF pc = "service" THEN 1 ELSE 0)

\* a publish right after a failed publish and a successful reconnect
C10_Witness ==
    /\ Len(log) > 3
    /\ Last(log).op = "publish"
    /\ log[Len(log) - 1] = Sleep(25)
    /\ log[Len(log) - 2] = Ev("reconnect", "", Null, 0, "ok")
    /\ log[Len(log) - 3].op = "publish"

-----------------------------------------------------------------------------
(* C11: Both observations start unset; once a delivered weather message    *)
(* has set the current one it is never unset again, nor taken for unset by *)
(* the loop, until the process restarts, whatever is delivered later; the  *)
(* same holds for the previous one once it is committed.                   *)

C11_NeverUnset ==
    /\ (pc = "wifi" => weather_data = PyNone /\ weather_data_old = PyNone)
    /\ [][pc # "reload" =>
            /\ Truthy(weather_data) => Truthy(weather_data')
            /\ Truthy(weather_data_old) => Truthy(weather_data_old')]_vars

-----------------------------------------------------------------------------
(* C12: The previous observation is overwritten only by the commit, only   *)
(* with the current one, and only after all eight values of it have been   *)
(* published successfully in that iteration.                               *)

OkPublishes(l) ==
    Cardinality({i \in 1..Len(l) : l[i].op = "publish" /\ l[i].res = "ok"})

Committed == log # <<>> /\ Last(log).op = "commit"

\* the claim as stated
C12_CommitAfterEightPublished ==
    Committed => OkPublishes(log) = 8

\* As amended: the previous observation is overwritten only by the commit,
\* only with the current one, and only after all eight publish_to_aio calls
\* of that iteration have returned; a call returns also when its value was
\* None (nothing sent) or when its publish failed and the reconnect
\* succeeded (the value is not sent again).
C12_CommitAfterEightCalls ==
    /\ [](Committed =>
            /\ Len(Calls(log)) = 8
            /\ weather_data_old = weather_data
            /\ \A i \in 1..Len(log) :
                  (log[i].op = "publish" /\ log[i].res = "fail") =>
                      log[i + 1] = Ev("reconnect", "", Null, 0, "ok"))
    /\ [][(weather_data_old' # weather_data_old /\ pc # "reload") =>
            /\ pc = "commit"
            /\ Len(Calls(log)) = 8
            /\ weather_data_old' = weather_data
            /\ weather_data' = weather_data]_vars

\* an observation is committed although one of its values was not published
C12_Witness ==
    /\ Committed
    /\ Logged(log, "publish", "fail")
    /\ OkPublishes(log) = 7
    /\ Truthy(weather_data_old)

-----------------------------------------------------------------------------
(* C13: For a condition code that is not in the description table the      *)
(* lookup does not raise: the description is "unknown description: <code>" *)
(* and the icon is "99d" when daylight is true and "99n" when it is false; *)
(* the eight values are published as for a known code.                     *)

UnknownCode ==
    wk.set /\ (wk.desc = Null \/ wk.desc[1] \notin DOMAIN kit_to_map_icon)

C13_UnknownCodeFallback ==
    (UnknownCode /\ pc \in {"publish", "pub_reconnect", "commit"}) =>
        /\ exc = "none"
        /\ wk.long_desc = "unknown description: "
                            \o (IF wk.desc = Null THEN "None" ELSE wk.desc[1])
        /\ wk.icon = IF TruthyField(wk.daylight) THEN "99d" ELSE "99n"

\* As amended: for a code that is not in the table the lookup does not
\* raise, the description is "unknown description: <code>" and the icon is
\* "99d" whatever the daylight flag; the eight calls of the publish sequence
\* are made as for a known code, the description feed receiving the code
\* itself.
C13_UnknownCodeIconIsDay ==
    (UnknownCode /\ pc \in {"publish", "pub_reconnect", "commit"}) =>
        /\ exc = "none"
        /\ wk.long_desc = "unknown description: "
                            \o (IF wk.desc = Null THEN "None" ELSE wk.desc[1])
        /\ wk.icon = "99d"
        /\ LET c == Calls(log)
           IN  /\ pc = "commit" => Len(c) = Len(PublishOrder)
               /\ \A i \in 1..Len(c) : c[i].feed = PublishOrder[i]
               /\ Len(c) >= 2 => c[2].val = wk.desc

\* an unknown code at night has gone through the whole publish sequence
C13_Witness ==
    /\ pc = "commit"
    /\ wk.desc = <<"Martian">>
    /\ ~TruthyField(wk.daylight)
    /\ wk.icon = "99d"
    /\ OkPublishes(log) = 8

-----------------------------------------------------------------------------
(* C14: A value that is None causes no publish, no 2.5 second wait, no     *)
(* reconnect and no error: the indicator is left as it was, the sequence   *)
(* goes on with the next value, and the observation is still committed at  *)
(* the end of the cycle.                                                   *)

Skipped(l) == \E i \in 1..Len(l) : l[i].op = "skip"

NoneValueNext ==
    pc = "publish" /\ \A t \in Monotonic : ValueOf(feedNo, wk, t) = Null

C14_NoneValueSkipped ==
    /\ [][NoneValueNext =>
            /\ log' = Append(log, Ev("skip", PublishOrder[feedNo], Null, 0,
                                     "none"))
            /\ pixel' = pixel
            /\ exc' = exc
            /\ pc' = "publish"
            /\ feedNo' = feedNo + 1]_vars
    /\ []((Skipped(log) /\ pc \in {"busy120", "loop"}) =>
            /\ Logged(log, "commit", "ok")
            /\ weather_data_old = weather_data)

\* a cycle that skipped a None description, published the other seven
\* values and committed
C14_Witness ==
    /\ pc = "busy120"
    /\ Skipped(log)
    /\ OkPublishes(log) = 7
    /\ ~Logged(log, "reconnect", "ok")
    /\ weather_data_old = weather_data

-----------------------------------------------------------------------------
(* C15: The soft reset does not return to the code that started it: from   *)
(* each of its three sites (Wi-Fi connect failure, failed reconnect after  *)
(* aio.loop, failed reconnect after a publish) nothing but the 60 second   *)
(* sleep happens before code.py starts again - no connect, subscribe,      *)
(* aio.loop, publish, reconnect or commit - and the pixel is red.          *)

FatalSite(e) ==
    /\ e.op \in {"wifi", "connect", "reconnect"}
    /\ e.res = "fail"

C15_ResetNeverReturns ==
    /\ [](pc = "fatal" =>
            /\ pixel = "red"
            /\ log # <<>>
            /\ FatalSite(Last(log)))
    /\ [](pc = "reload" =>
            /\ pixel = "red"
            /\ Len(log) >= 2
            /\ Last(log) = Sleep(RESET_WAIT)
            /\ FatalSite(log[Len(log) - 1]))
    /\ [][pc = "fatal" =>
            /\ pc' = "reload"
            /\ log' = Append(log, Sleep(RESET_WAIT))
            /\ UNCHANGED <<weather_data, weather_data_old, pixel>>]_vars
    /\ [][pc = "reload" =>
            /\ pc' = "wifi"
            /\ log' = <<>>
            /\ weather_data_old' = PyNone]_vars

\* the reset started in publish_to_aio, in the middle of the publish
\* sequence of an observation that is then never committed
C15_Witness ==
    /\ pc = "reload"
    /\ log[Len(log) - 1] = Ev("reconnect", "", Null, 0, "fail")
    /\ OkPublishes(log) = 3
    /\ weather_data_old # weather_data

-----------------------------------------------------------------------------
(* C16: The 60 second countdown before the soft reset is made with the     *)
(* blink primitive of busy(): at every site the LED is pulsed once a       *)
(* second, 60 times, before the reset.                                     *)

-----------------------------------------------------------------------------
(* C17: Every iteration of the loop that does not end in the soft reset    *)
(* ends with exactly one busy() wait: busy(10) exactly when the current    *)
(* observation is unset (and then nothing was published), busy(120) when   *)
(* it is set, changed or not.                                              *)

\* the log is that of an iteration of the loop
InIteration == log # <<>> /\ log[1] = Sleep(THROTTLE)

BusyWaits(l) == Cardinality({i \in 1..Len(l) : l[i].op = "busy"})

C17_OneHeartbeatWait ==
    InIteration =>
        /\ pc # "halted"
        /\ pc = "loop" =>
              /\ BusyWaits(log) = 1
              /\ Last(log) = Ev("busy", "", Null,
                                IF weather_data = PyNone
                                THEN BUSY_WAITING * 10 ELSE BUSY_RUNNING * 10,
                                "ok")
              /\ weather_data = PyNone => NoPublish(log)

-----------------------------------------------------------------------------
(* C18: The startup steps are taken once per run of code.py: the Wi-Fi     *)
(* connect, the construction of the session with the broker connect, and   *)
(* the subscribe each happen exactly once, in that order, before the first *)
(* aio.loop call; a successful reconnect in the loop goes on with the loop *)
(* without a new Wi-Fi connect or subscribe.                               *)

StartupLog ==
    <<Ev("wifi", "", Null, 0, "ok"), Ev("connect", "", Null, 0, "ok"),
      Ev("subscribe", "", Null, 0, "ok")>>

C18_StartupOnce ==
    /\ [](pc = "loop" => InIteration \/ log = StartupLog)
    /\ [](InIteration =>
            \A i \in 1..Len(log) : log[i].op \notin {"wifi", "subscribe"})
    /\ [][/\ pc' = "wifi" => pc \in {"wifi", "reload"}
          /\ pc' = "aio_connect" => pc \in {"aio_connect", "wifi"}
          /\ pc' = "subscribe" => pc \in {"subscribe", "aio_connect"}
          /\ pc = "loop" => pc' \in {"loop", "service"}]_vars
    /\ [][(pc = "loop_reconnect"
             /\ log' = Append(log, Ev("connect", "", Null, 0, "ok")))
          => pc' = "check"]_vars
    /\ [][(pc = "pub_reconnect"
             /\ log' = Append(log, Ev("reconnect", "", Null, 0, "ok")))
          => pc' \in {"publish", "commit"}]_vars

\* the loop goes on after a successful reconnect that followed a failed
\* aio.loop call
C18_Witness ==
    /\ pc = "check"
    /\ InIteration
    /\ Last(log) = Ev("connect", "", Null, 0, "ok")
    /\ Logged(log, "loop", "fail")

-----------------------------------------------------------------------------
(* C19: The current observation changes only inside an aio.loop call, by   *)
(* the message callback, and only for the feed "weather"; the values       *)
(* published in one iteration all come from one observation, the last one  *)
(* delivered before the publish sequence began, and the commit stores      *)
(* exactly that observation.                                               *)

\* the values the n-th call of the sequence may pass for the observation d
ValuesOf(n, d) == {ValueOf(n, Decoded(d), t) : t \in Monotonic}

C19_OneObservationPerCycle ==
    /\ [][(weather_data' # weather_data /\ pc # "reload") =>
            /\ pc = "service"
            /\ delivered' = delivered + 1
            /\ last_feed' = "weather"]_vars
    /\ [][(pc = "service" /\ delivered' = delivered + 1
             /\ last_feed' # "weather") =>
            weather_data' = weather_data]_vars
    /\ [][(pc \in {"decode", "publish", "pub_reconnect", "commit"}) =>
            weather_data' = weather_data]_vars
    /\ [](pc \in {"publish", "pub_reconnect", "commit"} =>
            wk = Decoded(weather_data))
    /\ [](LET c == Calls(log)
          IN  (InIteration /\ c # <<>>) =>
                 \A i \in 1..Len(c) : c[i].val \in ValuesOf(i, weather_data))
    /\ [](Committed => weather_data_old = weather_data)

\* two observations arrived in one aio.loop call; the sequence published
\* the later one and the commit stored it
C19_Witness ==
    /\ Committed
    /\ delivered = 2
    /\ OkPublishes(log) = 8
    /\ weather_data = RainNight
    /\ weather_data_old = RainNight
    /\ Calls(log)[4].val = <<celsius_to_fahrenheit(-5)>>

-----------------------------------------------------------------------------
(* C20: If a well-formed observation that differs from the previous one    *)
(* (or a first one) is delivered during an aio.loop call and nothing fails *)
(* afterwards, then in the same iteration its eight values are published   *)
(* and it is committed, so that the busy(120) that follows finds the       *)
(* previous observation equal to the current one.                          *)

\* observations that decode and have no None value
WellFormed == {ClearDay, RainNight, OddCode}

FailureSeen == \E i \in 1..Len(log) : log[i].res = "fail"

PublishedAndCommitted(d) ==
    /\ pc = "busy120"
    /\ Committed
    /\ OkPublishes(log) = Len(PublishOrder)
    /\ weather_data = d
    /\ weather_data_old = d

JustDelivered(d) ==
    /\ pc = "service"
    /\ delivered > 0
    /\ last_feed = "weather"
    /\ weather_data = d
    /\ weather_data_old # d

\* the claim as stated; a run that an exception of the decode stops, or in
\* which a later message unsets the observation, is not held against it
C20_DeliveredIsCommitted ==
    \A d \in WellFormed :
        JustDelivered(d)
            ~> \/ PublishedAndCommitted(d)
               \/ FailureSeen
               \/ pc = "halted"
               \/ ~Truthy(weather_data)

\* As amended: the observation that the loop finds after the aio.loop call
\* (the last one delivered; an earlier one of the same call is overwritten
\* and never published), if it is well formed and differs from the previous
\* one, is published in full and committed in that iteration unless a call
\* fails, and the busy(120) that follows starts with previous = current.
C20_LastDeliveredIsCommitted ==
    /\ (pc = "check" /\ weather_data \in WellFormed
                     /\ weather_data_old # weather_data)
          ~> (PublishedAndCommitted(weather_data) \/ FailureSeen)
    /\ [][(pc = "check" \/ pc = "decode" \/ pc = "publish" \/ pc = "commit")
            => /\ pc' # "loop" /\ pc' # "service"
               /\ weather_data' = weather_data]_vars
    /\ [][pc = "busy120" =>
            /\ pc' = "loop"
            /\ Last(log') = Ev("busy", "", Null, BUSY_RUNNING * 10, "ok")
            /\ UNCHANGED <<weather_data, weather_data_old>>]_vars

\* the busy(120) after the first observation was published and committed
C20_Witness ==
    /\ pc = "loop"
    /\ Last(log) = Ev("busy", "", Null, BUSY_RUNNING * 10, "ok")
    /\ Logged(log, "commit", "ok")
    /\ OkPublishes(log) = Len(PublishOrder)
    /\ ~FailureSeen
    /\ weather_data = ClearDay
    /\ weather_data_old = weather_data

====
